---------------------------- MODULE Spec2Model ----------------------------
(***************************************************************************)
(* A state-machine model of the Poisson spike source of                    *)
(* neural_modelling/src/spike_source/poisson/spike_source_poisson.c.       *)
(*                                                                         *)
(* Fixed-point numbers are integers in units of 1/RealOne (REAL) and       *)
(* 1/FractOne (UFRACT).  The four-word random seed is one integer modulo   *)
(* SeedModulus.  The tick counter `time` starts at UINT32_MAX, written -1: *)
(* the code only reads it after time++ has wrapped it to 0.                *)
(***************************************************************************)
EXTENDS Integers, Sequences, FiniteSets

\* ------------------------------------------------------------------ bounds

\* Ticks the model runs for (the tick counter never exceeds it).
MaxTicks == 2

\* Rate-update packets (multicast) delivered in one behaviour.
MaxRateUpdates == 1

\* Host (SDP) messages delivered in one behaviour.
MaxSdpMessages == 1

\* Reload value of hardware timer 1 at the start of a tick.
TimerLoad == 40

\* The most sends the fabric refuses in one pass of the sweep.
MaxRefusals == 1

\* ------------------------------------------------- number representations

\* UFRACT: v stands for v / FractOne, 0 <= v < FractOne.
FractOne == 8

\* REAL: v stands for v / RealOne.
RealOne == 4

\* mars_kiss64_seed_t, folded into one word.
SeedModulus == 16

\* uint32_t arithmetic of the hardware counter, at 16 bits.
CounterModulus == 2 ^ 16

\* UINT32_MAX as the tick counter holds it before the first tick.
UINT32_MAX == -1

RECURSIVE BitAnd(_, _)
BitAnd(a, b) ==
    IF a = 0 \/ b = 0 THEN 0
    ELSE (IF a % 2 = 1 /\ b % 2 = 1 THEN 1 ELSE 0) + 2 * BitAnd(a \div 2, b \div 2)

RECURSIVE BitOr(_, _)
BitOr(a, b) ==
    IF a = 0 THEN b
    ELSE IF b = 0 THEN a
    ELSE (IF a % 2 = 1 \/ b % 2 = 1 THEN 1 ELSE 0) + 2 * BitOr(a \div 2, b \div 2)

\* REAL * REAL and REAL * UFRACT, truncated as the fixed-point product is.
RealMul(a, b) == (a * b) \div RealOne
RealMulFract(a, f) == (a * f) \div FractOne

\* (UFRACT) of a REAL: the fraction bits, the integer part dropped.
ToUFract(r) == ((r * FractOne) \div RealOne) % FractOne

\* EXP of a non-positive REAL -x, x >= 0, as a REAL.
ExpNeg(x) ==
    IF x <= 0 THEN RealOne
    ELSE IF x <= 1 THEN 3
    ELSE IF x <= 2 THEN 2
    ELSE IF x <= 5 THEN 1
    ELSE 0

\* kbits: the payload word read as a REAL.
kbits(word) == word

\* ----------------------------------------------------------- random stream

\* validate_mars_kiss64_seed: a seed word that must not be zero is replaced.
ValidateSeed(seed) == IF seed % SeedModulus = 0 THEN 1 ELSE seed % SeedModulus

\* mars_kiss64_seed: advances the seed in place.
NextSeed(seed) == (5 * seed + 3) % SeedModulus

\* The word just drawn, read as a UFRACT in [0, 1).
Uniform(seed) == (seed * FractOne) \div SeedModulus

\* -ln(U) as a REAL for U = u / FractOne (the largest value for U = 0).
ExpTable == << 12, 8, 5, 3, 2, 1, 1, 0 >>

\* exponential_dist_variate: one draw, the seed advanced.
ExponentialVariate(seed) ==
    LET seed1 == NextSeed(seed)
    IN  [value |-> ExpTable[Uniform(seed1) + 1], seed |-> seed1]

\* poisson_dist_variate_exp_minus_lambda: multiply uniform draws until the
\* product is no longer above exp(-lambda); the count of draws less one.
RECURSIVE PoissonLoop(_, _, _, _)
PoissonLoop(seed, p, k, exp_minus_lambda) ==
    LET seed1 == NextSeed(seed)
        p1 == (p * Uniform(seed1)) \div FractOne
    IN  IF p1 > exp_minus_lambda
        THEN PoissonLoop(seed1, p1, k + 1, exp_minus_lambda)
        ELSE [value |-> k, seed |-> seed1]

PoissonVariate(seed, exp_minus_lambda) ==
    PoissonLoop(seed, FractOne - 1, 0, exp_minus_lambda)

\* slow_spike_source_get_time_to_spike
SlowGetTimeToSpike(seed, mean_isi_ticks) ==
    LET e == ExponentialVariate(seed)
    IN  [value |-> RealMul(e.value, mean_isi_ticks), seed |-> e.seed]

\* fast_spike_source_get_num_spikes
FastGetNumSpikes(seed, exp_minus_lambda) ==
    IF exp_minus_lambda = 0
    THEN [value |-> 0, seed |-> seed]
    ELSE PoissonVariate(seed, exp_minus_lambda)

\* ------------------------------------------------------------------- state

VARIABLES
    parameters,              \* struct parameters (DTCM copy)
    spike_source_array,      \* spike_source_t[n_spike_sources] (DTCM copy)
    sdram_parameters,        \* the parameter block of the POISSON_PARAMS region
    sdram_sources,           \* the source records that follow it in the region
    time,                    \* the tick counter
    simulation_ticks,        \* ticks to run before pausing
    infinite_run,            \* TRUE when the run has no end
    recording_flags,         \* > 0 when spikes are recorded
    spikes,                  \* the timed_out_spikes buffer (addr 0: NULL)
    n_spike_buffers_allocated,
    recording_in_progress,   \* TRUE while a write of the buffer is outstanding
    expected_time,           \* the dispatch throttle's target counter value
    tc,                      \* hardware timer 1 count (counts down)
    run_state,               \* "running" | "paused" | "trapped" | "overrun"
    timer_pc,                \* "idle" | "sweep" | "record" | "pause" | "trapped": where
                             \* timer_callback is
    s_index,                 \* the sweep's loop variable s
    next_addr,               \* the next address spin1_malloc returns
    tick_spikes,             \* history: spikes generated per source in this tick
    sent,                    \* history: packets accepted by the fabric in this tick
    handed,                  \* history: the last payload handed to the writer
    last_rate,               \* history: the rate of the last set_rate per source
    rate_updates,            \* history: rate-update packets delivered so far
    sdp,                     \* history: host messages delivered and what was done
    last_update_id,          \* history: the id of the last rate-update packet
    swept,                   \* history: the tick indices the sweep has run on, in order
    outstanding,             \* history: writes submitted whose completion has not fired
    pause_log,               \* history: the calls of the pause path of the current pause, in order
    refusals,                \* history: sends the fabric refused in the pass just made
    preempted,               \* history: the pass just made, if a packet callback ran inside it, and where
    table_records,           \* the number of records spike_source_array was allocated for
    resumes                  \* history: the number of times resume_callback has run

vars == << parameters, spike_source_array, sdram_parameters, sdram_sources, time,
           simulation_ticks, infinite_run, recording_flags, spikes,
           n_spike_buffers_allocated, recording_in_progress, expected_time, tc,
           run_state, timer_pc, s_index, next_addr, tick_spikes, sent, handed,
           last_rate, rate_updates, sdp,
           last_update_id,
           swept,
           outstanding,
           pause_log,
           refusals,
           preempted,
           table_records,
           resumes >>

\* The static time_between_spikes: zero-initialised, assigned nowhere.
time_between_spikes == 0

NoRate == 0 - 1

\* No rate-update packet has arrived yet.
NoId == 0 - 1

\* The pass just made had no packet callback inside it.
NoPreemption == [s |-> 0 - 1, point |-> "none"]

\* ------------------------------------------------------------- input sets

SeedValues == {11, 12}
KeyValues == {4}

\* Base keys the host may write into the parameter block between two runs.
HostKeyValues == {8}
SourceCounts == {1, 2}
WindowValues == { <<0, MaxTicks>>, <<1, MaxTicks - 1>> }
ExpMinusLambdaValues == {0, 1}
MeanIsiValues == {0, RealOne}

\* What the loader may have written for one source: the field of the other
\* regime is zero.
SourceRecords ==
    { [start_ticks |-> w[1], end_ticks |-> w[2], is_fast_source |-> TRUE,
       exp_minus_lambda |-> e, mean_isi_ticks |-> 0, time_to_spike_ticks |-> 0]
        : w \in WindowValues, e \in ExpMinusLambdaValues }
    \cup
    { [start_ticks |-> w[1], end_ticks |-> w[2], is_fast_source |-> FALSE,
       exp_minus_lambda |-> 0, mean_isi_ticks |-> m, time_to_spike_ticks |-> 0]
        : w \in WindowValues, m \in MeanIsiValues }

ParameterBlocks ==
    { [has_key |-> hk, key |-> k, set_rate_neuron_id_mask |-> 3,
       random_backoff_us |-> 2, time_between_spikes |-> 3,
       seconds_per_tick |-> FractOne \div 2, ticks_per_second |-> 2 * RealOne,
       slow_rate_per_tick_cutoff |-> 1, first_source_id |-> 1,
       n_spike_sources |-> n, spike_source_seed |-> sd]
        : hk \in BOOLEAN, k \in KeyValues, n \in SourceCounts, sd \in SeedValues }

\* The rate a rate update may carry (REAL): 2 Hz.
RateValues == {2 * RealOne}

\* Routing keys of incoming rate-update packets: under the mask, ids 0, 1 and
\* 3 (0 is below this core's range, 3 above it).
UpdateKeys == {8, 9, 11}

\* Host messages: word 0 is n_items, then the {id, rate} pairs.
SdpMessages ==
    { << [id |-> 2, rate |-> 1], [id |-> 1, rate |-> 2 * RealOne] >> }

NullSpikes == [addr |-> 0, time |-> 0, n_buffers |-> 0, out_spikes |-> << >>]

NoPayload == [valid |-> FALSE, addr |-> 0, time |-> 0, n_buffers |-> 0,
              layers |-> << >>, counts |-> << >>]

\* ------------------------------------------------------------ rate control

\* A set_spike_source_rate that takes the id for an index of the table: it
\* tests id < n_spike_sources and never subtracts first_source_id.
SetSpikeSourceRateLocalId(sources, params, id, rate_arg) ==
    IF id >= 0 /\ id < params.n_spike_sources
    THEN [sources EXCEPT
            ![id].is_fast_source = FALSE,
            ![id].mean_isi_ticks = RealMul(0, params.ticks_per_second)]
    ELSE sources

\* A set_spike_source_rate that also restarts the source's time to spike.
SetSpikeSourceRateResetTime(sources, params, id, rate_arg) ==
    IF id >= params.first_source_id
       /\ (id - params.first_source_id) < params.n_spike_sources
    THEN [sources EXCEPT
            ![id - params.first_source_id].is_fast_source = FALSE,
            ![id - params.first_source_id].mean_isi_ticks =
                RealMul(0, params.ticks_per_second),
            ![id - params.first_source_id].time_to_spike_ticks = 0]
    ELSE sources

\* set_spike_source_rate: the local `REAL rate = 0.0` hides the argument.
SetSpikeSourceRate(sources, params, id, rate_arg) ==
    IF id >= params.first_source_id
       /\ (id - params.first_source_id) < params.n_spike_sources
    THEN LET sub_id == id - params.first_source_id
             rate == 0
             rate_per_tick == RealMulFract(rate, params.seconds_per_tick)
         IN  IF rate > params.slow_rate_per_tick_cutoff
             THEN [sources EXCEPT
                     ![sub_id].is_fast_source = TRUE,
                     ![sub_id].exp_minus_lambda = ToUFract(ExpNeg(rate_per_tick))]
             ELSE [sources EXCEPT
                     ![sub_id].is_fast_source = FALSE,
                     ![sub_id].mean_isi_ticks = RealMul(rate, params.ticks_per_second)]
    ELSE sources

\* History of set_rate: the incoming rate, kept for the source it targets.
NoteRate(rates, params, id, rate_arg) ==
    IF id >= params.first_source_id
       /\ (id - params.first_source_id) < params.n_spike_sources
    THEN [rates EXCEPT ![id - params.first_source_id] = rate_arg]
    ELSE rates

\* sdp_packet_callback's loop: set_rate once per pair, in message order.
RECURSIVE SdpSetRates(_, _, _)
SdpSetRates(sources, params, items) ==
    IF items = << >> THEN sources
    ELSE SdpSetRates(
            SetSpikeSourceRate(sources, params, Head(items).id, kbits(Head(items).rate)),
            params, Tail(items))

RECURSIVE SdpNoteRates(_, _, _)
SdpNoteRates(rates, params, items) ==
    IF items = << >> THEN rates
    ELSE SdpNoteRates(
            NoteRate(rates, params, Head(items).id, kbits(Head(items).rate)),
            params, Tail(items))

\* The events c_main registers a callback for.
RegisteredCallbacks == {"TIMER_TICK", "MCPL_PACKET_RECEIVED"}

\* -------------------------------------------------------- recording buffer

\* _reset_spikes
ResetSpikes(buf) ==
    [buf EXCEPT !.n_buffers = 0,
                !.out_spikes = [n \in 1..Len(buf.out_spikes) |-> {}]]

\* Mutant of GrowSpikes: the new buffer is zeroed and the old contents are
\* not copied into it.
GrowSpikesNoCopy(buf, allocated, n_spikes, addr) ==
    [addr |-> addr, time |-> 0, n_buffers |-> 0,
     out_spikes |-> [n \in 1..n_spikes |-> {}]]

\* The reallocation of _mark_spike: a zeroed buffer of n_spikes layers, the old
\* header and layers copied into it.
GrowSpikes(buf, allocated, n_spikes, addr) ==
    [addr |-> addr,
     time |-> IF buf.addr # 0 THEN buf.time ELSE 0,
     n_buffers |-> IF buf.addr # 0 THEN buf.n_buffers ELSE 0,
     out_spikes |-> [n \in 1..n_spikes |->
                        IF buf.addr # 0 /\ n <= allocated
                        THEN buf.out_spikes[n] ELSE {}]]

\* _mark_spike, on [spikes, allocated, next_addr]
MarkSpike(st, flags, neuron_id, n_spikes) ==
    IF flags > 0
    THEN LET grow == st.allocated < n_spikes
             b1 == IF grow
                   THEN GrowSpikes(st.spikes, st.allocated, n_spikes, st.next_addr)
                   ELSE st.spikes
             b2 == IF b1.n_buffers < n_spikes
                   THEN [b1 EXCEPT !.n_buffers = n_spikes] ELSE b1
             b3 == [b2 EXCEPT !.out_spikes =
                      [n \in 1..Len(b2.out_spikes) |->
                          IF n <= n_spikes THEN b2.out_spikes[n] \cup {neuron_id}
                          ELSE b2.out_spikes[n]]]
         IN  [spikes |-> b3,
              allocated |-> IF grow THEN n_spikes ELSE st.allocated,
              next_addr |-> IF grow THEN st.next_addr + 1 ELSE st.next_addr]
    ELSE st

\* --------------------------------------------------------------- dispatch

\* Mutant of SpikeKey: the source index is left out of the key.
SpikeKeyBaseOnly(params, s) == params.key

\* The key a spike of local source s is sent with.
SpikeKey(params, s) == BitOr(params.key, s)

\* A send that gives up when the fabric refuses the packet.
FabricSendNoRetry(packets, spike_key, refused) ==
    IF refused = 0
    THEN Append(packets, [key |-> spike_key, payload |-> "NO_PAYLOAD"])
    ELSE packets

\* The loop around spin1_send_mc_packet: the fabric refuses the packet
\* `refused` times (nothing is accepted, the core waits 1 us) and then
\* accepts it.
RECURSIVE FabricSend(_, _, _)
FabricSend(packets, spike_key, refused) ==
    IF refused = 0
    THEN Append(packets, [key |-> spike_key, payload |-> "NO_PAYLOAD"])
    ELSE FabricSend(packets, spike_key, refused - 1)

\* _send_spike, on [tc, expected_time, sent]: wait for the counter to come
\* down to expected_time, move the target on, send the packet.  Every refusal
\* is followed by spin1_delay_us(1), during which the counter runs on by one.
SendSpike(st, spike_key, refused) ==
    [tc |-> ((IF st.tc > st.expected_time THEN st.expected_time ELSE st.tc)
                - refused) % CounterModulus,
     expected_time |-> (st.expected_time - time_between_spikes) % CounterModulus,
     sent |-> FabricSend(st.sent, spike_key, refused)]

\* The n calls of _send_spike for one source; the fabric refuses the first
\* packet `refused` times.
RECURSIVE SendSpikes(_, _, _, _)
SendSpikes(st, spike_key, n, refused) ==
    IF n = 0 THEN st
    ELSE SendSpikes(SendSpike(st, spike_key, refused), spike_key, n - 1, 0)

\* Mutant of SendsPackets: has_key is not consulted.
SendsPacketsAlways(params) == TRUE

\* Whether the source sends at all.
SendsPackets(params) == params.has_key

\* ------------------------------------------------------------- generation

\* Mutant of InWindow: the end of the window is not tested.
InWindowNoEnd(src, t) == t >= src.start_ticks

\* time >= start_ticks && time < end_ticks
InWindow(src, t) == t >= src.start_ticks /\ t < src.end_ticks

\* Mutant of SlowActive: mean_isi_ticks is not tested.
SlowActiveAnyIsi(src, t) == t >= src.start_ticks /\ t < src.end_ticks

\* The guard of the slow branch.
SlowActive(src, t) == InWindow(src, t) /\ src.mean_isi_ticks # 0

\* The fast branch of the sweep for one source: [src, seed, n].
FastVisit(src, seed, t) ==
    IF InWindow(src, t)
    THEN LET d == FastGetNumSpikes(seed, src.exp_minus_lambda)
         IN  [src |-> src, seed |-> d.seed, n |-> d.value]
    ELSE [src |-> src, seed |-> seed, n |-> 0]

\* A slow branch that spikes without adding a fresh interval.
SlowVisitNoRedraw(src, seed, t) ==
    IF SlowActive(src, t)
    THEN [src |-> [src EXCEPT !.time_to_spike_ticks =
                        src.time_to_spike_ticks - RealOne],
          seed |-> seed,
          n |-> IF src.time_to_spike_ticks <= 0 THEN 1 ELSE 0]
    ELSE [src |-> src, seed |-> seed, n |-> 0]

\* The slow branch of the sweep for one source: [src, seed, n].
SlowVisit(src, seed, t) ==
    IF SlowActive(src, t)
    THEN IF src.time_to_spike_ticks <= 0
         THEN LET d == SlowGetTimeToSpike(seed, src.mean_isi_ticks)
              IN  [src |-> [src EXCEPT !.time_to_spike_ticks =
                                src.time_to_spike_ticks + d.value - RealOne],
                   seed |-> d.seed, n |-> 1]
         ELSE [src |-> [src EXCEPT !.time_to_spike_ticks =
                                src.time_to_spike_ticks - RealOne],
               seed |-> seed, n |-> 0]
    ELSE [src |-> src, seed |-> seed, n |-> 0]

\* The slow branch when multicast_packet_callback runs after the branch has
\* tested the window and mean_isi_ticks (520-522) and before the interval is
\* drawn: the test saw the record `pre`, the draw reads mean_isi_ticks again
\* (542) from the record `post` the callback left.
SlowVisitLate(pre, post, seed, t) ==
    IF SlowActive(pre, t)
    THEN IF post.time_to_spike_ticks <= 0
         THEN LET d == SlowGetTimeToSpike(seed, post.mean_isi_ticks)
              IN  [src |-> [post EXCEPT !.time_to_spike_ticks =
                                post.time_to_spike_ticks + d.value - RealOne],
                   seed |-> d.seed, n |-> 1]
         ELSE [src |-> [post EXCEPT !.time_to_spike_ticks =
                                post.time_to_spike_ticks - RealOne],
               seed |-> seed, n |-> 0]
    ELSE [src |-> post, seed |-> seed, n |-> 0]

\* The places of one pass of the loop body at which a multicast packet that
\* arrives changes what the pass reads: after the test of is_fast_source
\* (491), and in the slow branch after the test of mean_isi_ticks (522).
PreemptionPoints == {"regime", "guard"}

\* A pass that works on a copy of the record taken when it began and stores
\* the whole copy back, over what the callback wrote.
PreemptedVisitWholeRecord(sources, params, s, id, rate, t, point) ==
    LET pre == sources[s]
        r == IF pre.is_fast_source
             THEN FastVisit(pre, params.spike_source_seed, t)
             ELSE SlowVisit(pre, params.spike_source_seed, t)
    IN  [table |-> [sources EXCEPT ![s] = r.src],
         seed |-> r.seed, n |-> r.n]

\* One pass of the loop body for source s with multicast_packet_callback
\* running inside it at `point`: the branch was chosen on the record as it
\* was, everything read later comes from the record the callback left, and
\* the pass writes time_to_spike_ticks only.
PreemptedVisit(sources, params, s, id, rate, t, point) ==
    LET pre == sources[s]
        upd == SetSpikeSourceRate(sources, params, id, rate)
        post == upd[s]
        r == IF pre.is_fast_source
             THEN FastVisit(post, params.spike_source_seed, t)
             ELSE IF point = "regime"
                  THEN SlowVisit(post, params.spike_source_seed, t)
                  ELSE SlowVisitLate(pre, post, params.spike_source_seed, t)
    IN  [table |-> [upd EXCEPT ![s].time_to_spike_ticks =
                        r.src.time_to_spike_ticks],
         seed |-> r.seed, n |-> r.n]

\* ------------------------------------------------------- load and store

\* read_poisson_parameters: the block and the n_spike_sources records after it.
ReadParameters(block) ==
    [block EXCEPT !.spike_source_seed = ValidateSeed(block.spike_source_seed)]

ReadSources(block, region) ==
    [s \in 0..(block.n_spike_sources - 1) |-> region[s]]

\* A store_poisson_parameters whose copy stops after the first record.
StoreSourcesFirstOnly(params, sources, region) ==
    [s \in DOMAIN region |->
        IF s < params.n_spike_sources /\ s < 1 THEN sources[s] ELSE region[s]]

\* store_poisson_parameters: only the source records are written back.
StoreSources(params, sources, region) ==
    [s \in DOMAIN region |->
        IF s < params.n_spike_sources THEN sources[s] ELSE region[s]]

\* initialize's loop: the first time to spike of every slow source.
RECURSIVE InitSlowSources(_, _, _, _)
InitSlowSources(sources, seed, s, n) ==
    IF s >= n THEN [sources |-> sources, seed |-> seed]
    ELSE IF ~sources[s].is_fast_source
         THEN LET d == SlowGetTimeToSpike(seed, sources[s].mean_isi_ticks)
              IN  InitSlowSources(
                      [sources EXCEPT ![s].time_to_spike_ticks = d.value],
                      d.seed, s + 1, n)
         ELSE InitSlowSources(sources, seed, s + 1, n)

\* ----------------------------------------------------------------- actions

RunLengths == 1..2

\* c_main up to simulation_run: initialize() has read the region, drawn the
\* first time to spike of the slow sources and set up the recording sizes.
Init ==
    \E block \in ParameterBlocks, flags \in {0, 1}, ticks \in RunLengths,
       inf \in BOOLEAN :
      \E region \in [0..(block.n_spike_sources - 1) -> SourceRecords] :
        LET params0 == ReadParameters(block)
            first == InitSlowSources(ReadSources(block, region),
                                     params0.spike_source_seed, 0,
                                     params0.n_spike_sources)
        IN  /\ (inf => ticks = 1)
            /\ sdram_parameters = block
            /\ sdram_sources = region
            /\ parameters = [params0 EXCEPT !.spike_source_seed = first.seed]
            /\ spike_source_array = first.sources
            /\ time = UINT32_MAX
            /\ simulation_ticks = (IF inf THEN 0 ELSE ticks)
            /\ infinite_run = inf
            /\ recording_flags = flags
            /\ spikes = NullSpikes
            /\ n_spike_buffers_allocated = 0
            /\ recording_in_progress = FALSE
            /\ expected_time = 0
            /\ tc = TimerLoad
            /\ run_state = "running"
            /\ timer_pc = "idle"
            /\ s_index = 0
            /\ next_addr = 1
            /\ tick_spikes = [s \in 0..(block.n_spike_sources - 1) |-> 0]
            /\ sent = << >>
            /\ handed = NoPayload
            /\ last_rate = [s \in 0..(block.n_spike_sources - 1) |-> NoRate]
            /\ rate_updates = 0
            /\ sdp = [delivered |-> 0, msg |-> << >>, set_rate_calls |-> << >>,
                      freed |-> 0]
            /\ last_update_id = NoId
            /\ swept = << >>
            /\ outstanding = 0
            /\ pause_log = << >>
            /\ refusals = 0
            /\ preempted = NoPreemption
            /\ table_records = block.n_spike_sources
            /\ resumes = 0

\* The test at the top of timer_callback, after time++.
PauseDue(t) == ~infinite_run /\ t >= simulation_ticks

\* A pause path that finalises the recording before it enters the pause state.
PausePathFinaliseFirst(flags) ==
    << "store_poisson_parameters" >>
        \o (IF flags > 0 THEN << "recording_finalise" >> ELSE << >>)
        \o << "simulation_handle_pause_resume", "time_decrement" >>

\* The calls of the pause path of timer_callback, in the order of the code.
PausePath(flags) ==
    << "store_poisson_parameters", "simulation_handle_pause_resume" >>
        \o (IF flags > 0 THEN << "recording_finalise" >> ELSE << >>)
        \o << "time_decrement" >>

\* A pause path that does not take the time++ back.
TimeAfterPauseNoDecrement(t) == t

\* The tick counter at the end of the pause path: time -= 1.
TimeAfterPause(t) == t - 1

\* recording_finalise, on [outstanding, recording_in_progress]: the recorder
\* flushes synchronously, so every write that was submitted is completed and
\* its completion callback has cleared the flag when the call returns.
RecordingFinalise(st) ==
    [outstanding |-> 0,
     recording_in_progress |->
        IF st.outstanding > 0 THEN FALSE ELSE st.recording_in_progress]

\* timer_callback, the run has ended: time++ and the test that finds the run
\* over; the calls of the pause path follow one by one.
TimerPause ==
    /\ run_state = "running"
    /\ timer_pc = "idle"
    /\ PauseDue(time + 1)
    /\ time' = time + 1
    /\ timer_pc' = "pause"
    /\ UNCHANGED << parameters, spike_source_array, sdram_parameters,
                    sdram_sources, simulation_ticks, infinite_run,
                    recording_flags, spikes, n_spike_buffers_allocated,
                    recording_in_progress, expected_time, tc, run_state,
                    s_index, next_addr, tick_spikes, sent, handed, last_rate,
                    rate_updates, sdp, last_update_id, swept, outstanding,
                    pause_log, refusals, preempted, table_records, resumes >>

\* The next call of the pause path: store the sources, go into the pause
\* state, finalise the recording, take the time++ back.  The callback
\* returns after the last one.
TimerPauseCall ==
    /\ timer_pc = "pause"
    /\ LET path == PausePath(recording_flags)
           i == Len(pause_log) + 1
           call == path[i]
           rec0 == [outstanding |-> outstanding,
                    recording_in_progress |-> recording_in_progress]
           rec1 == IF call = "recording_finalise"
                   THEN RecordingFinalise(rec0) ELSE rec0
       IN  /\ pause_log' = Append(pause_log, call)
           /\ timer_pc' = (IF i = Len(path) THEN "idle" ELSE "pause")
           /\ sdram_sources' =
                 (IF call = "store_poisson_parameters"
                  THEN StoreSources(parameters, spike_source_array, sdram_sources)
                  ELSE sdram_sources)
           /\ run_state' =
                 (IF call = "simulation_handle_pause_resume"
                  THEN "paused" ELSE run_state)
           /\ outstanding' = rec1.outstanding
           /\ recording_in_progress' = rec1.recording_in_progress
           /\ time' = (IF call = "time_decrement"
                       THEN TimeAfterPause(time) ELSE time)
    /\ UNCHANGED << parameters, spike_source_array, sdram_parameters,
                    simulation_ticks, infinite_run, recording_flags, spikes,
                    n_spike_buffers_allocated, expected_time, tc, s_index,
                    next_addr, tick_spikes, sent, handed, last_rate,
                    rate_updates, sdp, last_update_id, swept, refusals,
                    preempted, table_records, resumes >>

\* timer_callback up to the loop over the sources.
TimerStart ==
    /\ run_state = "running"
    /\ timer_pc = "idle"
    /\ ~PauseDue(time + 1)
    /\ time + 1 < MaxTicks
    /\ time' = time + 1
    /\ swept' = Append(swept, time')
    /\ tc' = TimerLoad - parameters.random_backoff_us
    /\ expected_time' = (tc' - time_between_spikes) % CounterModulus
    /\ s_index' = 0
    /\ timer_pc' = (IF parameters.n_spike_sources > 0 THEN "sweep" ELSE "record")
    /\ tick_spikes' = [s \in DOMAIN tick_spikes |-> 0]
    /\ sent' = << >>
    /\ UNCHANGED << parameters, spike_source_array, sdram_parameters,
                    sdram_sources, simulation_ticks, infinite_run,
                    recording_flags, spikes, n_spike_buffers_allocated,
                    recording_in_progress, run_state, next_addr, handed,
                    last_rate, rate_updates, sdp,
                    last_update_id,
                    outstanding,
                    pause_log,
                    refusals,
                    preempted,
                    table_records,
                    resumes >>

\* One pass of the loop body, for source s_index.
VisitSource ==
    /\ timer_pc = "sweep"
    /\ s_index < parameters.n_spike_sources
    /\ LET s == s_index
           src == spike_source_array[s]
           r == IF src.is_fast_source
                THEN FastVisit(src, parameters.spike_source_seed, time)
                ELSE SlowVisit(src, parameters.spike_source_seed, time)
           buf0 == [spikes |-> spikes, allocated |-> n_spike_buffers_allocated,
                    next_addr |-> next_addr]
           buf1 == IF r.n > 0 THEN MarkSpike(buf0, recording_flags, s, r.n)
                   ELSE buf0
           snd0 == [tc |-> tc, expected_time |-> expected_time, sent |-> sent]
           sends == r.n > 0 /\ SendsPackets(parameters)
       IN  /\ \E refused \in 0..MaxRefusals :
                 LET snd1 == IF sends
                             THEN SendSpikes(snd0, SpikeKey(parameters, s), r.n,
                                             refused)
                             ELSE snd0
                 IN  /\ refused > 0 => sends
                     /\ refusals' = refused
                     /\ tc' = snd1.tc
                     /\ expected_time' = snd1.expected_time
                     /\ sent' = snd1.sent
           /\ spike_source_array' = [spike_source_array EXCEPT ![s] = r.src]
           /\ parameters' = [parameters EXCEPT !.spike_source_seed = r.seed]
           /\ spikes' = buf1.spikes
           /\ n_spike_buffers_allocated' = buf1.allocated
           /\ next_addr' = buf1.next_addr
           /\ tick_spikes' = [tick_spikes EXCEPT ![s] = r.n]
           /\ s_index' = s + 1
           /\ preempted' = NoPreemption
           /\ timer_pc' = (IF s + 1 < parameters.n_spike_sources
                           THEN "sweep" ELSE "record")
    /\ UNCHANGED << sdram_parameters, sdram_sources, time, simulation_ticks,
                    infinite_run, recording_flags, recording_in_progress,
                    run_state, handed, last_rate, rate_updates, sdp,
                    last_update_id,
                    swept,
                    outstanding,
                    pause_log,
                    table_records,
                    resumes >>

\* One pass of the loop body with a multicast packet taken inside it: the
\* packet callback has the higher priority and runs to its end before the
\* pass goes on.  The packet is one for the source of the pass: the pass reads
\* no other record and the callback writes no other, so a packet for another
\* source inside the pass is MulticastPacket before it.
VisitSourcePreempted ==
    /\ timer_pc = "sweep"
    /\ s_index < parameters.n_spike_sources
    /\ rate_updates < MaxRateUpdates
    /\ \E key \in UpdateKeys, payload \in RateValues, point \in PreemptionPoints :
          LET s == s_index
              id == BitAnd(key, parameters.set_rate_neuron_id_mask)
              rate == kbits(payload)
              r == PreemptedVisit(spike_source_array, parameters, s, id, rate,
                                  time, point)
              buf0 == [spikes |-> spikes, allocated |-> n_spike_buffers_allocated,
                       next_addr |-> next_addr]
              buf1 == IF r.n > 0 THEN MarkSpike(buf0, recording_flags, s, r.n)
                      ELSE buf0
              snd0 == [tc |-> tc, expected_time |-> expected_time, sent |-> sent]
              sends == r.n > 0 /\ SendsPackets(parameters)
          IN  /\ id = s + parameters.first_source_id
              /\ \E refused \in 0..MaxRefusals :
                    LET snd1 == IF sends
                                THEN SendSpikes(snd0, SpikeKey(parameters, s),
                                                r.n, refused)
                                ELSE snd0
                    IN  /\ refused > 0 => sends
                        /\ refusals' = refused
                        /\ tc' = snd1.tc
                        /\ expected_time' = snd1.expected_time
                        /\ sent' = snd1.sent
              /\ spike_source_array' = r.table
              /\ parameters' = [parameters EXCEPT !.spike_source_seed = r.seed]
              /\ last_rate' = NoteRate(last_rate, parameters, id, rate)
              /\ last_update_id' = id
              /\ preempted' = [s |-> s, point |-> point]
              /\ spikes' = buf1.spikes
              /\ n_spike_buffers_allocated' = buf1.allocated
              /\ next_addr' = buf1.next_addr
              /\ tick_spikes' = [tick_spikes EXCEPT ![s] = r.n]
              /\ s_index' = s + 1
              /\ timer_pc' = (IF s + 1 < parameters.n_spike_sources
                              THEN "sweep" ELSE "record")
    /\ rate_updates' = rate_updates + 1
    /\ UNCHANGED << sdram_parameters, sdram_sources, time, simulation_ticks,
                    infinite_run, recording_flags, recording_in_progress,
                    run_state, handed, sdp, swept, outstanding, pause_log,
                    table_records,
                    resumes >>

\* A failed allocation that forgets the buffer it was to replace.
MallocFailedBufferLost(st) ==
    [st EXCEPT !.spikes = NullSpikes, !.allocated = 0]

\* _mark_spike when spin1_malloc returns NULL: rt_error is raised before
\* anything is written, the buffer and the count of allocated layers stay.
MallocFailed(st) == st

\* One pass of the loop body in which _mark_spike has to grow the buffer and
\* spin1_malloc returns NULL: the core stops in rt_error(RTE_SWERR).  A Fast
\* source has drawn its number of spikes by then, a Slow one has not yet
\* drawn its next interval.
VisitSourceTrap ==
    /\ timer_pc = "sweep"
    /\ s_index < parameters.n_spike_sources
    /\ recording_flags > 0
    /\ LET s == s_index
           src == spike_source_array[s]
           r == IF src.is_fast_source
                THEN FastVisit(src, parameters.spike_source_seed, time)
                ELSE SlowVisit(src, parameters.spike_source_seed, time)
           buf0 == [spikes |-> spikes, allocated |-> n_spike_buffers_allocated,
                    next_addr |-> next_addr]
           buf1 == MallocFailed(buf0)
       IN  /\ r.n > 0
           /\ n_spike_buffers_allocated < r.n
           /\ parameters' =
                 (IF src.is_fast_source
                  THEN [parameters EXCEPT !.spike_source_seed = r.seed]
                  ELSE parameters)
           /\ spikes' = buf1.spikes
           /\ n_spike_buffers_allocated' = buf1.allocated
           /\ next_addr' = buf1.next_addr
    /\ run_state' = "trapped"
    /\ timer_pc' = "trapped"
    /\ UNCHANGED << spike_source_array, sdram_parameters, sdram_sources, time,
                    simulation_ticks, infinite_run, recording_flags,
                    recording_in_progress, expected_time, tc, s_index,
                    tick_spikes, sent, handed, last_rate, rate_updates, sdp,
                    last_update_id, swept, outstanding, pause_log, refusals,
                    preempted,
                    table_records,
                    resumes >>

\* The pass that ends in rt_error with a multicast packet taken inside it
\* before _mark_spike is reached: the callback has rewritten the record, the
\* pass has written nothing of its own when the core stops.
VisitSourceTrapPreempted ==
    /\ timer_pc = "sweep"
    /\ s_index < parameters.n_spike_sources
    /\ recording_flags > 0
    /\ rate_updates < MaxRateUpdates
    /\ \E key \in UpdateKeys, payload \in RateValues, point \in PreemptionPoints :
          LET s == s_index
              id == BitAnd(key, parameters.set_rate_neuron_id_mask)
              rate == kbits(payload)
              r == PreemptedVisit(spike_source_array, parameters, s, id, rate,
                                  time, point)
              buf0 == [spikes |-> spikes, allocated |-> n_spike_buffers_allocated,
                       next_addr |-> next_addr]
              buf1 == MallocFailed(buf0)
          IN  /\ id = s + parameters.first_source_id
              /\ r.n > 0
              /\ n_spike_buffers_allocated < r.n
              /\ spike_source_array' =
                    SetSpikeSourceRate(spike_source_array, parameters, id, rate)
              /\ parameters' =
                    (IF spike_source_array[s].is_fast_source
                     THEN [parameters EXCEPT !.spike_source_seed = r.seed]
                     ELSE parameters)
              /\ last_rate' = NoteRate(last_rate, parameters, id, rate)
              /\ last_update_id' = id
              /\ preempted' = [s |-> s, point |-> point]
              /\ spikes' = buf1.spikes
              /\ n_spike_buffers_allocated' = buf1.allocated
              /\ next_addr' = buf1.next_addr
    /\ rate_updates' = rate_updates + 1
    /\ run_state' = "trapped"
    /\ timer_pc' = "trapped"
    /\ UNCHANGED << sdram_parameters, sdram_sources, time, simulation_ticks,
                    infinite_run, recording_flags, recording_in_progress,
                    expected_time, tc, s_index, tick_spikes, sent, handed, sdp,
                    swept, outstanding, pause_log, refusals, table_records,
                    resumes >>

\* The end of timer_callback when nothing is recorded.
TimerEndNoRecording ==
    /\ timer_pc = "record"
    /\ recording_flags = 0
    /\ timer_pc' = "idle"
    /\ refusals' = 0
    /\ preempted' = NoPreemption
    /\ UNCHANGED << parameters, spike_source_array, sdram_parameters,
                    sdram_sources, time, simulation_ticks, infinite_run,
                    recording_flags, spikes, n_spike_buffers_allocated,
                    recording_in_progress, expected_time, tc, run_state, s_index,
                    next_addr, tick_spikes, sent, handed, last_rate,
                    rate_updates, sdp,
                    last_update_id,
                    swept,
                    outstanding,
                    pause_log,
                    table_records,
                    resumes >>

\* What _record_spikes hands to recording_record_and_notify: the header and
\* the first n_buffers layers.
Payload(buf, t, counts) ==
    [valid |-> TRUE, addr |-> buf.addr, time |-> t, n_buffers |-> buf.n_buffers,
     layers |-> SubSeq(buf.out_spikes, 1, buf.n_buffers), counts |-> counts]

\* A _record_spikes without the wait.
WriterIdleAlways(in_progress) == TRUE

\* The wait at the top of _record_spikes is over.
WriterIdle(in_progress) == ~in_progress

\* A _record_spikes that records whenever the buffer exists.
HasSpikesToRecordAnyCount(buf) == buf.addr # 0

\* The test of _record_spikes: a buffer exists and holds at least one layer.
HasSpikesToRecord(buf) == buf.addr # 0 /\ buf.n_buffers > 0

\* A submission that sets the flag after handing the write over: the
\* completion may already have run, and cleared the flag, by then.
SubmitWriteFlagLast(n) ==
    { [in_progress |-> TRUE, outstanding |-> n + 1],
      [in_progress |-> TRUE, outstanding |-> n] }

\* The submission: recording_in_progress is set, then the write is handed to
\* recording_record_and_notify.  The outcomes for the flag and for the number
\* of writes whose completion is still to come.
SubmitWrite(n) == { [in_progress |-> TRUE, outstanding |-> n + 1] }

\* _record_spikes, once the wait for recording_in_progress is over, and the
\* end of timer_callback.
RecordSpikes ==
    /\ timer_pc = "record"
    /\ recording_flags > 0
    /\ WriterIdle(recording_in_progress)
    /\ IF HasSpikesToRecord(spikes)
       THEN /\ \E o \in SubmitWrite(outstanding) :
                  /\ recording_in_progress' = o.in_progress
                  /\ outstanding' = o.outstanding
            /\ handed' = Payload(spikes, time, tick_spikes)
            /\ spikes' = ResetSpikes([spikes EXCEPT !.time = time])
       ELSE UNCHANGED << recording_in_progress, outstanding, handed, spikes >>
    /\ timer_pc' = "idle"
    /\ refusals' = 0
    /\ preempted' = NoPreemption
    /\ UNCHANGED << parameters, spike_source_array, sdram_parameters,
                    sdram_sources, time, simulation_ticks, infinite_run,
                    recording_flags, n_spike_buffers_allocated, expected_time,
                    tc, run_state, s_index, next_addr, tick_spikes, sent,
                    last_rate, rate_updates, sdp, last_update_id, swept,
                    pause_log,
                    table_records,
                    resumes >>

\* recording_complete_callback, once for every write that was submitted.
RecordingComplete ==
    /\ run_state \notin {"trapped", "overrun"}
    /\ outstanding > 0
    /\ recording_in_progress' = FALSE
    /\ outstanding' = outstanding - 1
    /\ UNCHANGED << parameters, spike_source_array, sdram_parameters,
                    sdram_sources, time, simulation_ticks, infinite_run,
                    recording_flags, spikes, n_spike_buffers_allocated,
                    expected_time, tc, run_state, timer_pc, s_index, next_addr,
                    tick_spikes, sent, handed, last_rate, rate_updates, sdp,
                    last_update_id,
                    swept,
                    pause_log,
                    refusals,
                    preempted,
                    table_records,
                    resumes >>

\* A resume that reads the block again but keeps the key it already has.
RereadParametersKeepKey(old, block) ==
    [ReadParameters(block) EXCEPT !.key = old.key]

\* resume_callback's read_poisson_parameters: the whole block in shared memory
\* is copied over the struct in memory.
RereadParameters(old, block) == ReadParameters(block)

\* resume_callback, called by the simulation interface when the host starts
\* the next run: the region is read again into the existing table.
Resume ==
    /\ run_state = "paused"
    /\ timer_pc = "idle"
    /\ sdram_parameters.n_spike_sources <= table_records
    /\ \E more \in RunLengths :
          /\ simulation_ticks + more <= MaxTicks
          /\ simulation_ticks' = simulation_ticks + more
    /\ parameters' = RereadParameters(parameters, sdram_parameters)
    /\ spike_source_array' =
          (IF sdram_parameters.n_spike_sources > 0
           THEN ReadSources(sdram_parameters, sdram_sources)
           ELSE spike_source_array)
    /\ run_state' = "running"
    /\ last_rate' = [s \in DOMAIN last_rate |-> NoRate]
    /\ pause_log' = << >>
    /\ resumes' = resumes + 1
    /\ UNCHANGED << sdram_parameters, sdram_sources, time, infinite_run,
                    recording_flags, spikes, n_spike_buffers_allocated,
                    recording_in_progress, expected_time, tc, timer_pc, s_index,
                    next_addr, tick_spikes, sent, handed, rate_updates, sdp,
                    last_update_id,
                    swept,
                    outstanding,
                    refusals,
                    preempted,
                    table_records >>

\* The word a UFRACT (u0.32) is stored as, for the fractions below one half
\* that the records written by the host hold.
UFractWord(f) == f * (((2 ^ 16) \div FractOne) * (2 ^ 16))

\* The word a REAL (s16.15) is stored as, read as a signed number.
RealWord(r) == r * ((2 ^ 15) \div RealOne)

\* The bits set in a 32-bit word given as a signed number, as one layer of
\* out_spikes holds them.
WordBits(w) ==
    IF w >= 0
    THEN { i \in 0..30 : (w \div (2 ^ i)) % 2 = 1 }
    ELSE { i \in 0..30 : (((w + 2147483647) + 1) \div (2 ^ i)) % 2 = 1 } \cup {31}

\* The recording buffer when it lies behind the table and the words of a
\* spike_source_t are copied over it: start_ticks and end_ticks fall on the
\* block header, is_fast_source on time, exp_minus_lambda on n_buffers,
\* mean_isi_ticks and time_to_spike_ticks on the first two layers.
OverwrittenSpikes(buf, rec) ==
    [buf EXCEPT
        !.time = IF rec.is_fast_source THEN 1 ELSE 0,
        !.n_buffers = UFractWord(rec.exp_minus_lambda),
        !.out_spikes =
            [n \in 1..Len(buf.out_spikes) |->
                IF n = 1 THEN WordBits(RealWord(rec.mean_isi_ticks))
                ELSE IF n = 2 THEN WordBits(RealWord(rec.time_to_spike_ticks))
                ELSE buf.out_spikes[n]]]

\* What the copy past the end of the table can leave of the recording
\* buffer: the behaviour is undefined, the buffer is either out of the way
\* (or not allocated yet) or it is the block behind the table.
OverrunOutcomes(buf, rec) ==
    IF buf.addr = 0 THEN {buf} ELSE {buf, OverwrittenSpikes(buf, rec)}

\* resume_callback when the block in shared memory names more sources than
\* the table was allocated for: read_poisson_parameters allocates only while
\* spike_source_array is NULL (225-228) and copies n_spike_sources records
\* (235-238), so the copy runs past the end of the allocation.  What the heap
\* held there is overwritten; the run is not followed any further.
ResumeOverrun ==
    /\ run_state = "paused"
    /\ timer_pc = "idle"
    /\ sdram_parameters.n_spike_sources > table_records
    /\ \E more \in RunLengths :
          /\ simulation_ticks + more <= MaxTicks
          /\ simulation_ticks' = simulation_ticks + more
    /\ spikes' \in OverrunOutcomes(spikes, sdram_sources[table_records])
    /\ parameters' = RereadParameters(parameters, sdram_parameters)
    /\ spike_source_array' = ReadSources(sdram_parameters, sdram_sources)
    /\ run_state' = "overrun"
    /\ last_rate' = [s \in DOMAIN sdram_sources |-> NoRate]
    /\ tick_spikes' = [s \in DOMAIN sdram_sources |-> 0]
    /\ pause_log' = << >>
    /\ resumes' = resumes + 1
    /\ UNCHANGED << sdram_parameters, sdram_sources, time,
                    infinite_run, recording_flags,
                    n_spike_buffers_allocated, recording_in_progress,
                    expected_time, tc, timer_pc, s_index, next_addr, sent,
                    handed, rate_updates, sdp, last_update_id, swept,
                    outstanding, refusals, preempted, table_records >>

\* multicast_packet_callback
MulticastPacket ==
    /\ run_state \notin {"trapped", "overrun"}
    /\ rate_updates < MaxRateUpdates
    /\ \E key \in UpdateKeys, payload \in RateValues :
          LET id == BitAnd(key, parameters.set_rate_neuron_id_mask)
              rate == kbits(payload)
          IN  /\ spike_source_array' =
                    SetSpikeSourceRate(spike_source_array, parameters, id, rate)
              /\ last_rate' = NoteRate(last_rate, parameters, id, rate)
              /\ last_update_id' = id
    /\ rate_updates' = rate_updates + 1
    /\ UNCHANGED << parameters, sdram_parameters, sdram_sources, time,
                    simulation_ticks, infinite_run, recording_flags, spikes,
                    n_spike_buffers_allocated, recording_in_progress,
                    expected_time, tc, run_state, timer_pc, s_index, next_addr,
                    tick_spikes, sent, handed, sdp,
                    swept,
                    outstanding,
                    pause_log,
                    refusals,
                    preempted,
                    table_records,
                    resumes >>

\* A host message arrives.  sdp_packet_callback runs only if c_main has
\* registered it; a message no callback takes is released by the dispatcher.
SdpPacket ==
    /\ run_state \notin {"trapped", "overrun"}
    /\ sdp.delivered < MaxSdpMessages
    /\ \E msg \in SdpMessages :
          IF "SDP_PACKET_RX" \in RegisteredCallbacks
          THEN /\ spike_source_array' =
                     SdpSetRates(spike_source_array, parameters, msg)
               /\ last_rate' = SdpNoteRates(last_rate, parameters, msg)
               /\ sdp' = [delivered |-> sdp.delivered + 1, msg |-> msg,
                          set_rate_calls |-> msg, freed |-> 1]
          ELSE /\ sdp' = [delivered |-> sdp.delivered + 1, msg |-> msg,
                          set_rate_calls |-> << >>, freed |-> 1]
               /\ UNCHANGED << spike_source_array, last_rate >>
    /\ UNCHANGED << parameters, sdram_parameters, sdram_sources, time,
                    simulation_ticks, infinite_run, recording_flags, spikes,
                    n_spike_buffers_allocated, recording_in_progress,
                    expected_time, tc, run_state, timer_pc, s_index, next_addr,
                    tick_spikes, sent, handed, rate_updates,
                    last_update_id,
                    swept,
                    outstanding,
                    pause_log,
                    refusals,
                    preempted,
                    table_records,
                    resumes >>

\* The host rewrites base_key in the parameter block while the core is
\* paused, between two runs: after the callback that took the pause has
\* returned (a core that was given a key).
HostRewriteKey ==
    /\ run_state = "paused"
    /\ timer_pc = "idle"
    /\ sdram_parameters.has_key
    /\ \E k \in HostKeyValues :
          /\ k # sdram_parameters.key
          /\ sdram_parameters' = [sdram_parameters EXCEPT !.key = k]
    /\ UNCHANGED << parameters, spike_source_array, sdram_sources, time,
                    simulation_ticks, infinite_run, recording_flags, spikes,
                    n_spike_buffers_allocated, recording_in_progress,
                    expected_time, tc, run_state, timer_pc, s_index, next_addr,
                    tick_spikes, sent, handed, last_rate, rate_updates, sdp,
                    last_update_id, swept,
                    outstanding,
                    pause_log,
                    refusals,
                    preempted,
                    table_records,
                    resumes >>

\* The record the host writes for a source it adds to the region.
HostNewRecords ==
    { [start_ticks |-> 0, end_ticks |-> MaxTicks, is_fast_source |-> TRUE,
       exp_minus_lambda |-> 1, mean_isi_ticks |-> 0, time_to_spike_ticks |-> 0] }

\* The host rewrites the region while the core is paused with one source
\* more: n_spike_sources in the block and a record after the ones stored.
HostRewriteCount ==
    /\ run_state = "paused"
    /\ timer_pc = "idle"
    /\ \E n \in SourceCounts, rec \in HostNewRecords :
          /\ n = sdram_parameters.n_spike_sources + 1
          /\ sdram_parameters' = [sdram_parameters EXCEPT !.n_spike_sources = n]
          /\ sdram_sources' = [s \in 0..(n - 1) |->
                                 IF s \in DOMAIN sdram_sources
                                 THEN sdram_sources[s] ELSE rec]
    /\ UNCHANGED << parameters, spike_source_array, time,
                    simulation_ticks, infinite_run, recording_flags, spikes,
                    n_spike_buffers_allocated, recording_in_progress,
                    expected_time, tc, run_state, timer_pc, s_index, next_addr,
                    tick_spikes, sent, handed, last_rate, rate_updates, sdp,
                    last_update_id, swept, outstanding, pause_log, refusals,
                    preempted, table_records,
                    resumes >>

Next ==
    \/ TimerPause
    \/ TimerPauseCall
    \/ TimerStart
    \/ VisitSource
    \/ VisitSourcePreempted
    \/ VisitSourceTrap
    \/ VisitSourceTrapPreempted
    \/ TimerEndNoRecording
    \/ RecordSpikes
    \/ RecordingComplete
    \/ Resume
    \/ MulticastPacket
    \/ SdpPacket
    \/ HostRewriteKey
    \/ HostRewriteCount
    \/ ResumeOverrun

Spec == Init /\ [][Next]_vars

\* ------------------------------------------------------------------ claims

\* Bit i of x.
Bit(x, i) == (x \div (2 ^ i)) % 2

KeyBits == 0..4

\* key is base | s, bit by bit.
IsOrOf(key, base, s) ==
    \A i \in KeyBits :
        Bit(key, i) = (IF Bit(base, i) = 1 \/ Bit(s, i) = 1 THEN 1 ELSE 0)

RECURSIVE SumTo(_, _)
SumTo(counts, n) == IF n = 0 THEN 0 ELSE counts[n - 1] + SumTo(counts, n - 1)

\* The spikes generated by sources 0 .. n-1, given per source.
TotalSpikes(counts) == SumTo(counts, Cardinality(DOMAIN counts))

RECURSIVE SumBits(_)
SumBits(layers) ==
    IF layers = << >> THEN 0 ELSE Cardinality(Head(layers)) + SumBits(Tail(layers))

\* The local source of each spike of a tick, in sweep order.
RECURSIVE SpikeOrder(_, _, _)
SpikeOrder(counts, s, n) ==
    IF s >= n THEN << >>
    ELSE [i \in 1..counts[s] |-> s] \o SpikeOrder(counts, s + 1, n)

\* Bit s of layer k (counted from 0) is set iff source s spiked k+1 times or more.
LayersMatch(layers, counts) ==
    /\ \A s \in DOMAIN counts : counts[s] <= Len(layers)
    /\ \A k \in 1..Len(layers) :
          layers[k] = { s \in DOMAIN counts : counts[s] >= k }

InTick == timer_pc \in {"sweep", "record"}

OutsideWindow(src, t) == t < src.start_ticks \/ t >= src.end_ticks

\* The step of the sweep that visits source s.
VisitStep(s) == timer_pc = "sweep" /\ s_index = s /\ s_index' = s + 1

\* The visit generated nothing for s: no mark, no packet, no spike counted.
NoSpikeInStep(s) == sent' = sent /\ spikes' = spikes /\ tick_spikes'[s] = 0

\* C1: after set_rate(id, r), the source is Fast iff r * seconds_per_tick is
\* above slow_rate_per_tick_cutoff, and Slow otherwise.
C1_RegimeDichotomy ==
    \A s \in DOMAIN last_rate :
        last_rate[s] # NoRate =>
            (spike_source_array[s].is_fast_source
                <=> RealMulFract(last_rate[s], parameters.seconds_per_tick)
                        > parameters.slow_rate_per_tick_cutoff)

\* C2: set_rate derives the stored parameters from the incoming rate: Slow
\* gets mean_isi_ticks = rate * ticks_per_second (not zero for a rate that is
\* not zero), Fast gets exp_minus_lambda = exp(-rate * seconds_per_tick).
C2_ParametersFromRate ==
    \A s \in DOMAIN last_rate :
        last_rate[s] # NoRate =>
            LET src == spike_source_array[s]
                r == last_rate[s]
            IN  /\ ~src.is_fast_source =>
                      /\ src.mean_isi_ticks = RealMul(r, parameters.ticks_per_second)
                      /\ (r # 0 => src.mean_isi_ticks # 0)
                /\ src.is_fast_source =>
                      src.exp_minus_lambda =
                          ToUFract(ExpNeg(RealMulFract(r, parameters.seconds_per_tick)))

\* C3: with no rate updates, a pause followed by a resume leaves the state
\* that decides the future spikes (the seed and every source record) as it
\* was when the pause was taken.
C3_PauseResumeRoundTrip ==
    [][(run_state = "paused" /\ run_state' = "running" /\ rate_updates = 0)
          => /\ parameters'.spike_source_seed = parameters.spike_source_seed
             /\ spike_source_array' = spike_source_array]_vars

\* C4: when the buffer is handed to the writer, bit s of layer k is set iff
\* source s generated at least k+1 spikes in that tick, in the buffer as a
\* whole and in the payload, and the set bits add up to the tick's spikes.
C4_RecordingFidelity ==
    /\ (timer_pc = "record" /\ recording_flags > 0) =>
          /\ LayersMatch(spikes.out_spikes, tick_spikes)
          /\ SumBits(spikes.out_spikes) = TotalSpikes(tick_spikes)
          /\ \A s \in DOMAIN tick_spikes : tick_spikes[s] <= spikes.n_buffers
    /\ handed.valid =>
          /\ LayersMatch(handed.layers, handed.counts)
          /\ Len(handed.layers) = handed.n_buffers
          /\ SumBits(handed.layers) = TotalSpikes(handed.counts)

\* C4 witness: a payload of the first tick in which source 0 spiked once and
\* source 1 at least twice, so the buffer was regrown after the first mark.
C4_Witness ==
    /\ handed.valid
    /\ Cardinality(DOMAIN handed.counts) = 2
    /\ handed.counts[0] = 1
    /\ handed.counts[1] >= 2
    /\ handed.addr >= 2

\* C5: while a write is outstanding the submitted buffer is not touched: it
\* is the same allocation, with the header and the layers as submitted.
C5_NoMutationDuringWrite ==
    recording_in_progress =>
        /\ spikes.addr = handed.addr
        /\ spikes.time = handed.time
        /\ spikes.n_buffers = handed.n_buffers
        /\ Len(spikes.out_spikes) >= handed.n_buffers
        /\ SubSeq(spikes.out_spikes, 1, handed.n_buffers) = handed.layers

\* C6: a delivered host message has set_rate called once per pair, in
\* message order, and is then released once.
C6_HostMessageHandled ==
    sdp.delivered > 0 =>
        /\ sdp.set_rate_calls = sdp.msg
        /\ sdp.freed = 1

\* C7: without a key no packet is sent in the tick, and the buffer is marked
\* for every generated spike all the same.
C7_NoKeyStillRecords ==
    (InTick /\ ~parameters.has_key) =>
        /\ sent = << >>
        /\ recording_flags > 0 =>
              /\ LayersMatch(spikes.out_spikes, tick_spikes)
              /\ \A s \in DOMAIN tick_spikes : tick_spikes[s] <= spikes.n_buffers

\* C7 witness: the sweep of a tick is over, no key, recording on, and a
\* source has spiked more than once.
C7_Witness ==
    /\ timer_pc = "record"
    /\ ~parameters.has_key
    /\ recording_flags > 0
    /\ \E s \in DOMAIN tick_spikes : tick_spikes[s] >= 2
    /\ spikes.n_buffers >= 2

\* C8: with a key, the packets of a tick are, in sweep order, one per
\* generated spike, each with the key base_key | s and no payload.
C8_OnePacketPerSpike ==
    (InTick /\ parameters.has_key) =>
        LET order == SpikeOrder(tick_spikes, 0, parameters.n_spike_sources)
        IN  /\ Len(sent) = Len(order)
            /\ \A i \in 1..Len(sent) :
                  /\ sent[i].payload = "NO_PAYLOAD"
                  /\ IsOrOf(sent[i].key, parameters.key, order[i])

\* C8 witness: a tick with a key in which both sources spiked, three
\* packets or more.
C8_Witness ==
    /\ timer_pc = "record"
    /\ parameters.has_key
    /\ Len(sent) >= 3
    /\ \A s \in DOMAIN tick_spikes : tick_spikes[s] >= 1
    /\ Cardinality(DOMAIN tick_spikes) = 2

\* C9: the visit of a source in a tick outside [start_ticks, end_ticks)
\* generates nothing, whatever the regime and the rate parameters.
C9_SilentOutsideWindow ==
    [][\A s \in DOMAIN spike_source_array :
          (VisitStep(s) /\ OutsideWindow(spike_source_array[s], time))
              => NoSpikeInStep(s)]_vars

\* C9 witness: the sweep has visited a fast source with exp_minus_lambda not
\* zero and a slow source that is due, both outside their window.
C9_Witness ==
    /\ timer_pc = "record"
    /\ \E s \in DOMAIN spike_source_array :
          /\ OutsideWindow(spike_source_array[s], time)
          /\ spike_source_array[s].is_fast_source
          /\ spike_source_array[s].exp_minus_lambda # 0
    /\ \E s \in DOMAIN spike_source_array :
          /\ OutsideWindow(spike_source_array[s], time)
          /\ ~spike_source_array[s].is_fast_source
          /\ spike_source_array[s].mean_isi_ticks # 0
          /\ spike_source_array[s].time_to_spike_ticks <= 0

\* C10: the visit of a Slow source with mean_isi_ticks = 0 generates
\* nothing, whatever its time_to_spike_ticks.
C10_SilentSlowSource ==
    [][\A s \in DOMAIN spike_source_array :
          (/\ VisitStep(s)
           /\ ~spike_source_array[s].is_fast_source
           /\ spike_source_array[s].mean_isi_ticks = 0)
              => NoSpikeInStep(s)]_vars

\* C10 witness: the sweep has visited, inside its window, a Slow source with
\* mean_isi_ticks = 0 whose time_to_spike_ticks is not above zero.
C10_Witness ==
    /\ timer_pc = "record"
    /\ \E s \in DOMAIN spike_source_array :
          /\ ~OutsideWindow(spike_source_array[s], time)
          /\ ~spike_source_array[s].is_fast_source
          /\ spike_source_array[s].mean_isi_ticks = 0
          /\ spike_source_array[s].time_to_spike_ticks <= 0
          /\ tick_spikes[s] = 0

\* The program's state that a rate update could touch: everything but the
\* histories of the updates themselves.
ProgramState ==
    << parameters, spike_source_array, sdram_parameters, sdram_sources, time,
       simulation_ticks, infinite_run, recording_flags, spikes,
       n_spike_buffers_allocated, recording_in_progress, expected_time, tc,
       run_state, timer_pc, s_index, next_addr, tick_spikes, sent, handed,
       last_rate, sdp >>

\* A global id outside [first_source_id, first_source_id + n_spike_sources).
IdOutOfRange(id) ==
    \/ id < parameters.first_source_id
    \/ id >= parameters.first_source_id + parameters.n_spike_sources

\* C11: a rate update whose id is outside
\* [first_source_id, first_source_id + n_spike_sources) is ignored: the step
\* that delivers it changes no source record, no parameter and nothing else of
\* the program's state, and the core keeps running (no trap).
C11_OutOfRangeIgnored ==
    [][(rate_updates' = rate_updates + 1 /\ IdOutOfRange(last_update_id'))
          => UNCHANGED ProgramState]_vars

\* C11: an update for id first_source_id + n_spike_sources (one past the last
\* source) has been delivered while the last source is Fast with a rate: an
\* update in range would have made it Slow.
C11_Witness ==
    /\ rate_updates > 0
    /\ last_update_id = parameters.first_source_id + parameters.n_spike_sources
    /\ parameters.n_spike_sources = 2
    /\ spike_source_array[1].is_fast_source
    /\ spike_source_array[1].exp_minus_lambda # 0

\* The step that enters the pause state: from running to paused.
PauseStep == run_state = "running" /\ run_state' = "paused"

\* The step in which the callback that takes the pause makes the call c.
PauseCall(c) == timer_pc = "pause" /\ pause_log' = Append(pause_log, c)

\* C12: the sweep runs on tick indices 0, 1, 2, ... in order, none skipped and
\* none twice, across pauses and resumes; the callback that takes the pause
\* is entered on the first index not swept yet, generates nothing from its
\* first step to its return, and returns with the tick counter one below that
\* index, so the first callback after the resume works on the index the pause
\* was taken on.
C12_TickIndicesInOrder ==
    [][/\ \A i \in 1..Len(swept') : swept'[i] = i - 1
       /\ (timer_pc = "idle" /\ timer_pc' = "pause") => time' = Len(swept)
       /\ (timer_pc = "pause" /\ timer_pc' = "idle") => time' + 1 = Len(swept)
       /\ (timer_pc = "pause" \/ timer_pc' = "pause") =>
               /\ swept' = swept
               /\ sent' = sent
               /\ spikes' = spikes
               /\ tick_spikes' = tick_spikes
               /\ handed' = handed]_vars

\* C12: a finite run swept tick 0, took the pause, was resumed by
\* resume_callback and swept tick 1: the ticks swept are 0 and 1, one after
\* the other, on both sides of the pause.
C12_Witness ==
    /\ ~infinite_run
    /\ resumes = 1
    /\ pause_log = << >>
    /\ swept = << 0, 1 >>
    /\ time = 1
    /\ timer_pc = "idle"

\* C13: the callback that takes the pause rewrites the source records in
\* shared memory to equal the in-memory source table, every field of every
\* source, rate updates included, and leaves the parameter block in shared
\* memory as it was.
C13_PauseStoresSources ==
    [][/\ PauseCall("store_poisson_parameters") =>
            /\ \A s \in DOMAIN spike_source_array :
                  sdram_sources'[s] = spike_source_array[s]
            /\ DOMAIN sdram_sources' = DOMAIN sdram_sources
       /\ PauseStep => pause_log[1] = "store_poisson_parameters"
       /\ ((timer_pc = "idle" /\ timer_pc' = "pause")
             \/ \E c \in { "store_poisson_parameters", "recording_finalise",
                            "simulation_handle_pause_resume", "time_decrement" } :
                   PauseCall(c))
            => sdram_parameters' = sdram_parameters]_vars

\* C13: paused with two sources, the first one made Slow by a rate update (it
\* still carries the exp_minus_lambda it was loaded with), the second one
\* advanced by the run, and the records in shared memory are the table.
C13_Witness ==
    /\ run_state = "paused"
    /\ parameters.n_spike_sources = 2
    /\ last_rate[0] # NoRate
    /\ ~spike_source_array[0].is_fast_source
    /\ spike_source_array[0].exp_minus_lambda # 0
    /\ spike_source_array[1].time_to_spike_ticks # 0
    /\ \A s \in 0..1 : sdram_sources[s] = spike_source_array[s]

\* C14: once the host has rewritten base_key in the parameter block during a
\* pause, every packet sent after the resume has the key (new base_key | s) of
\* the source s that spiked, and none has the old base_key: every packet a
\* step sends is built from the base_key that is in shared memory.
C14_NewKeyAfterResume ==
    [][\A i \in (Len(sent) + 1)..Len(sent') :
          IsOrOf(sent'[i].key, sdram_parameters.key, s_index)]_vars

\* C14: the host has rewritten base_key, the core has resumed and a tick has
\* sent packets.
C14_Witness ==
    /\ sdram_parameters.key \in HostKeyValues
    /\ run_state = "running"
    /\ InTick
    /\ Len(sent) > 0
    /\ \A i \in 1..Len(sent) : sent[i].key >= sdram_parameters.key

\* The visit of source s finds it Slow, inside its window, with a mean
\* interval, and due (time_to_spike_ticks <= 0); no packet callback runs inside
\* the visit, so the record it reads is the one it found.
SlowDueStep(s) ==
    /\ VisitStep(s)
    /\ rate_updates' = rate_updates
    /\ ~spike_source_array[s].is_fast_source
    /\ time >= spike_source_array[s].start_ticks
    /\ time < spike_source_array[s].end_ticks
    /\ spike_source_array[s].mean_isi_ticks # 0
    /\ spike_source_array[s].time_to_spike_ticks <= 0

\* C15, as the claim states it: the spike-and-redraw step of a due Slow source
\* repeats until time_to_spike_ticks is > 0, so that the value is positive
\* before the decrement by one tick (after the visit it is > -1 tick).
C15_SlowLoopUntilPositive ==
    [][\A s \in DOMAIN spike_source_array :
          SlowDueStep(s) =>
              spike_source_array'[s].time_to_spike_ticks + RealOne > 0]_vars

\* C15, amended: a due Slow source spikes exactly once in the tick: one spike,
\* one fresh interval added to time_to_spike_ticks, then the decrement by one
\* tick, whatever the sign of the sum.
C15_SlowOneSpikePerTick ==
    [][\A s \in DOMAIN spike_source_array :
          SlowDueStep(s) =>
              LET d == SlowGetTimeToSpike(parameters.spike_source_seed,
                                          spike_source_array[s].mean_isi_ticks)
              IN  /\ tick_spikes'[s] = 1
                  /\ spike_source_array'[s].time_to_spike_ticks =
                        spike_source_array[s].time_to_spike_ticks
                            + d.value - RealOne
                  /\ parameters'.spike_source_seed = d.seed]_vars

\* C15: a Slow source has spiked once in this tick and is still due after its
\* fresh interval was added: the value before the decrement was <= 0.
C15_Witness ==
    /\ InTick
    /\ \E s \in DOMAIN spike_source_array :
          /\ s < s_index
          /\ ~spike_source_array[s].is_fast_source
          /\ spike_source_array[s].mean_isi_ticks # 0
          /\ tick_spikes[s] = 1
          /\ spike_source_array[s].time_to_spike_ticks + RealOne <= 0

\* The visit of source s marks the recording buffer: it generates spikes while
\* recording is on.
MarkStep(s) == VisitStep(s) /\ recording_flags > 0 /\ tick_spikes'[s] > 0

\* C16: whenever a mark on the recording buffer executes, no write of the
\* buffer is outstanding: recording_in_progress is false at every mark.
C16_NoMarkDuringWrite ==
    [][\A s \in DOMAIN spike_source_array :
          MarkStep(s) => ~recording_in_progress]_vars

\* C17: at most one recording write is outstanding at any time: the flush
\* submits a write only when recording_in_progress is false and every earlier
\* write's completion has fired.
C17_OneWriteOutstanding ==
    [][/\ outstanding' <= 1
       /\ outstanding' > outstanding
             => ~recording_in_progress /\ outstanding = 0]_vars

\* C17: a write is outstanding that was submitted in a later tick than an
\* earlier one (the buffer holds more layers than this payload carries, so an
\* earlier tick was recorded), after that one had completed.
C17_Witness ==
    /\ outstanding = 1
    /\ recording_in_progress
    /\ handed.valid
    /\ handed.time >= 1
    /\ handed.n_buffers < n_spike_buffers_allocated

\* The runs of a core that was given a key and the first seed.
InitLive ==
    /\ Init
    /\ sdram_parameters.has_key
    /\ sdram_parameters.spike_source_seed = 11

\* The timer callback runs on when its wait is over, and every write that was
\* submitted gets its completion callback.
LiveSpec ==
    /\ InitLive
    /\ [][Next]_vars
    /\ WF_vars(RecordSpikes)
    /\ WF_vars(RecordingComplete)

\* The flush has found the writer busy: timer_callback is in the wait of
\* _record_spikes.
FlushWaits ==
    timer_pc = "record" /\ recording_flags > 0 /\ recording_in_progress

\* C18: a flush that finds the writer busy proceeds in the end and the timer
\* callback returns, given that every submitted write's completion callback
\* fires: the completion of the write that set the flag is still to come
\* whenever the flush waits.
C18_FlushProceeds == FlushWaits ~> (timer_pc = "idle")

\* C18: the flush waits for a write submitted in an earlier tick.
C18_Witness == FlushWaits /\ outstanding = 1 /\ handed.time < time

\* The largest number of spikes any one source generated in this tick.
MaxCount(counts) ==
    CHOOSE m \in {counts[s] : s \in DOMAIN counts} :
        \A s \in DOMAIN counts : counts[s] <= m

\* The step of timer_callback that runs _record_spikes with recording on.
FlushStep == timer_pc = "record" /\ timer_pc' = "idle" /\ recording_flags > 0

\* C19: with recording on, the flush at the end of tick t submits a payload
\* to the writer if and only if at least one spike was marked in tick t; the
\* payload carries time = t and exactly as many layers as the largest spike
\* count of any one source in tick t.
C19_PayloadIffSpikes ==
    [][FlushStep =>
          /\ (outstanding' = outstanding + 1) <=> (TotalSpikes(tick_spikes) > 0)
          /\ (outstanding' = outstanding) <=> (TotalSpikes(tick_spikes) = 0)
          /\ TotalSpikes(tick_spikes) = 0 => handed' = handed
          /\ TotalSpikes(tick_spikes) > 0 =>
                /\ handed'.valid
                /\ handed'.time = time
                /\ handed'.n_buffers = MaxCount(tick_spikes)
                /\ Len(handed'.layers) = MaxCount(tick_spikes)]_vars

\* C19: the flush of a tick after the first has just submitted a payload of
\* three layers for a tick in which one source spiked three times and the
\* other did not spike at all.
C19_Witness ==
    /\ timer_pc = "idle"
    /\ recording_flags > 0
    /\ outstanding = 1
    /\ handed.valid
    /\ handed.time = time
    /\ time >= 1
    /\ handed.n_buffers = 3
    /\ \E s \in DOMAIN tick_spikes : tick_spikes[s] = 0
    /\ \E s \in DOMAIN tick_spikes : tick_spikes[s] = 3

\* C19: the flush of a tick in which nothing spiked has returned with nothing
\* submitted, although a buffer of an earlier tick exists.
C19_WitnessEmptyTick ==
    /\ timer_pc = "idle"
    /\ recording_flags > 0
    /\ spikes.addr # 0
    /\ time >= 1
    /\ Len(swept) = time + 1
    /\ TotalSpikes(tick_spikes) = 0
    /\ handed.valid
    /\ handed.time < time

\* C20, as the claim states it: the pause path persists the source table,
\* finalises the recorder, enters the pause state and decrements the tick
\* counter, in this order; with recording on, the recorder has been finalised
\* and no write submitted before the pause is outstanding when the pause state
\* is entered.
C20_FinaliseBeforePause ==
    [][(PauseStep /\ recording_flags > 0) =>
          /\ pause_log = << "store_poisson_parameters", "recording_finalise" >>
          /\ outstanding' = 0]_vars

\* C20, amended: the pause path persists the source table, enters the pause
\* state, finalises the recorder (only with recording on) and decrements the
\* tick counter, in this order.  The pause state is entered with the table
\* stored, the recorder not finalised yet, the tick counter not decremented
\* yet and the writer as it was, so a write can be outstanding at that moment;
\* the recorder is finalised in the pause state and leaves no write
\* outstanding; the tick counter is decremented last, after the finalise
\* whenever recording is on, with no write outstanding.
C20_PauseBeforeFinalise ==
    [][/\ PauseStep =>
            /\ pause_log = << "store_poisson_parameters" >>
            /\ time' = time
            /\ time = Len(swept)
            /\ outstanding' = outstanding
            /\ recording_in_progress' = recording_in_progress
       /\ PauseCall("recording_finalise") =>
            /\ run_state = "paused"
            /\ recording_flags > 0
            /\ time' = time
            /\ outstanding' = 0
       /\ PauseCall("time_decrement") =>
            /\ run_state = "paused"
            /\ recording_flags > 0 =>
                  pause_log[Len(pause_log)] = "recording_finalise"
            /\ recording_flags = 0 =>
                  pause_log[Len(pause_log)] = "simulation_handle_pause_resume"
            /\ outstanding = 0
            /\ time' = time - 1
            /\ timer_pc' = "idle"]_vars

\* C20: the pause state has just been entered with recording on, after the
\* store and before the finalise, and the write submitted at the end of the
\* last tick is still outstanding.
C20_Witness ==
    /\ run_state = "paused"
    /\ timer_pc = "pause"
    /\ recording_flags > 0
    /\ pause_log = << "store_poisson_parameters",
                      "simulation_handle_pause_resume" >>
    /\ recording_in_progress
    /\ outstanding = 1
    /\ handed.time + 1 = time

\* C21: within a tick the dispatches are paced by the parameter block's
\* time_between_spikes: when the i-th packet of the tick has been sent, the
\* (down-counting) timer has advanced at least i * time_between_spikes from
\* its value at the start of the sweep.
C21_DispatchPaced ==
    InTick =>
        (TimerLoad - parameters.random_backoff_us) - tc
            >= Len(sent) * parameters.time_between_spikes

\* C22: every call of _send_spike ends with exactly one packet of its key
\* accepted by the fabric, however often the fabric refuses it first: the
\* visit of source s adds, behind the packets already accepted in the tick,
\* one packet with the key of s for every spike of s, none dropped and none
\* twice, so that all packets of source s precede those of source s + 1.
C22_SendRetriedInOrder ==
    [][\A s \in DOMAIN spike_source_array :
          VisitStep(s) =>
              LET k == IF parameters.has_key THEN tick_spikes'[s] ELSE 0
              IN  /\ Len(sent') = Len(sent) + k
                  /\ SubSeq(sent', 1, Len(sent)) = sent
                  /\ \A i \in (Len(sent) + 1)..Len(sent') :
                        /\ IsOrOf(sent'[i].key, parameters.key, s)
                        /\ sent'[i].payload = "NO_PAYLOAD"]_vars

\* C22: the sweep of two sources is over, the fabric has refused a send on the
\* way, and the packets of the first source are followed by those of the
\* second.
C22_Witness ==
    /\ timer_pc = "record"
    /\ refusals > 0
    /\ parameters.n_spike_sources = 2
    /\ tick_spikes[0] >= 1
    /\ tick_spikes[1] >= 1
    /\ Len(sent) = tick_spikes[0] + tick_spikes[1]
    /\ sent[1].key # sent[Len(sent)].key

\* A rate-update callback runs on its own: multicast_packet_callback, or a
\* host message is delivered.
MulticastStep ==
    rate_updates' = rate_updates + 1 /\ s_index' = s_index /\ run_state' = run_state
HostMessageStep == sdp'.delivered = sdp.delivered + 1

\* What no rate update touches: the parameter block with the seed, the region
\* in shared memory, the tick counter and the recording buffer.
RateUpdateFrame ==
    << parameters, sdram_parameters, sdram_sources, time, simulation_ticks,
       spikes, n_spike_buffers_allocated, recording_in_progress, handed,
       tick_spikes, sent >>

\* The fields of a source record no rate update touches.
KeptFields(rec) ==
    << rec.time_to_spike_ticks, rec.start_ticks, rec.end_ticks >>

\* C23: a rate-update callback changes at most the regime flag,
\* exp_minus_lambda and mean_isi_ticks of the one source it targets: that
\* source's time_to_spike_ticks, start_ticks and end_ticks, every other source
\* record, the parameter block with the seed, the tick counter and the
\* recording buffer stay as they were.
C23_RateUpdateFrame ==
    [][/\ MulticastStep =>
             /\ UNCHANGED RateUpdateFrame
             /\ DOMAIN spike_source_array' = DOMAIN spike_source_array
             /\ \A s \in DOMAIN spike_source_array :
                   /\ KeptFields(spike_source_array'[s])
                         = KeptFields(spike_source_array[s])
                   /\ s + parameters.first_source_id # last_update_id'
                         => spike_source_array'[s] = spike_source_array[s]
       /\ HostMessageStep =>
             /\ UNCHANGED RateUpdateFrame
             /\ DOMAIN spike_source_array' = DOMAIN spike_source_array
             /\ \A s \in DOMAIN spike_source_array :
                   /\ KeptFields(spike_source_array'[s])
                         = KeptFields(spike_source_array[s])
                   /\ (\A i \in 1..Len(sdp'.msg) :
                          sdp'.msg[i].id # s + parameters.first_source_id)
                         => spike_source_array'[s] = spike_source_array[s]]_vars

\* C23: a Slow source that was waiting for its next spike has had its rate
\* set (its mean interval is now 0) and still has the time to spike it had.
C23_Witness ==
    /\ last_rate[0] # NoRate
    /\ last_update_id = parameters.first_source_id
    /\ ~spike_source_array[0].is_fast_source
    /\ spike_source_array[0].mean_isi_ticks = 0
    /\ spike_source_array[0].time_to_spike_ticks # 0
    /\ parameters.n_spike_sources = 2

\* C24: a rate update that has completed before the sweep reaches its source
\* is used by that visit and by every later one: whenever source s is visited
\* and the last rate update was for s, the record the visit works on has the
\* regime and the parameter of that regime that the update gave it.
C24_UpdateUsedFromNextTick ==
    [][\A s \in DOMAIN spike_source_array :
          (/\ VisitStep(s)
           /\ rate_updates > 0
           /\ rate_updates' = rate_updates
           /\ last_update_id = s + parameters.first_source_id)
          => \E rate \in RateValues :
                LET u == SetSpikeSourceRate(spike_source_array, parameters,
                                            last_update_id, rate)[s]
                    cur == spike_source_array[s]
                IN  /\ u.is_fast_source = cur.is_fast_source
                    /\ cur.is_fast_source
                          => u.exp_minus_lambda = cur.exp_minus_lambda
                    /\ ~cur.is_fast_source
                          => u.mean_isi_ticks = cur.mean_isi_ticks]_vars

\* C25: when the allocation that is to grow the recording buffer fails, the
\* core enters the software-error trap with the buffer, its capacity and its
\* number of layers as they were, and from then on nothing is submitted to
\* the writer.
C25_TrapOnFailedGrowth ==
    [][/\ (run_state # "trapped" /\ run_state' = "trapped")
             => /\ spikes' = spikes
                /\ n_spike_buffers_allocated' = n_spike_buffers_allocated
                /\ handed' = handed
                /\ outstanding' = outstanding
       /\ run_state = "trapped"
             => /\ run_state' = "trapped"
                /\ handed' = handed
                /\ outstanding' <= outstanding
                /\ recording_in_progress' = recording_in_progress]_vars

\* C25: the core is in the trap; the buffer that was to grow still exists
\* with its one layer, and the spike of this tick marked before the failure is
\* still in it.
C25_Witness ==
    /\ run_state = "trapped"
    /\ spikes.addr # 0
    /\ n_spike_buffers_allocated = 1
    /\ spikes.n_buffers = 1

\* Step formula: the pass over source s had the packet callback inside it.
PreemptedStep(s) == VisitStep(s) /\ rate_updates' = rate_updates + 1

\* The regime flag of a record and the parameters of the two regimes.
RegimeFields(rec) ==
    << rec.is_fast_source, rec.exp_minus_lambda, rec.mean_isi_ticks >>

\* C26, the part about the sweep: a pass of the sweep never leaves a record
\* torn and never reads one torn.  After a pass with the packet callback
\* inside it, the regime flag and the regime parameters of every record are
\* those the update alone would have produced from the table as it was; a
\* pass without the callback leaves them as they were; and a pass with the
\* callback inside it generates from the parameter of the regime it branched
\* on: a Fast pass from the record's exp_minus_lambda as it was, a Slow pass
\* from mean_isi_ticks as it was or as the update left it.  (Two updates that
\* overlap are not covered: the packet callback is the only caller of
\* set_spike_source_rate that is registered and it is not re-entered, so no
\* behaviour has them.)
C26_NoTornRecord ==
    [][\A s \in DOMAIN spike_source_array :
         LET pre == spike_source_array[s]
             post == spike_source_array'[s]
             seed == parameters.spike_source_seed
         IN  /\ (\E v \in DOMAIN spike_source_array : PreemptedStep(v))
                  => \E rate \in RateValues :
                        RegimeFields(post) =
                          RegimeFields(SetSpikeSourceRate(spike_source_array,
                                          parameters, last_update_id', rate)[s])
             /\ (VisitStep(s) /\ rate_updates' = rate_updates)
                  => RegimeFields(post) = RegimeFields(pre)
             /\ (PreemptedStep(s) /\ pre.is_fast_source)
                  => LET v == FastVisit(pre, seed, time)
                     IN  /\ tick_spikes'[s] = v.n
                         /\ parameters'.spike_source_seed = v.seed
                         /\ post.time_to_spike_ticks = pre.time_to_spike_ticks
             /\ (PreemptedStep(s) /\ ~pre.is_fast_source)
                  => \E g, m \in {pre.mean_isi_ticks, post.mean_isi_ticks} :
                        LET v == SlowVisitLate([pre EXCEPT !.mean_isi_ticks = g],
                                               [pre EXCEPT !.mean_isi_ticks = m],
                                               seed, time)
                        IN  /\ tick_spikes'[s] = v.n
                            /\ parameters'.spike_source_seed = v.seed
                            /\ post.time_to_spike_ticks =
                                 v.src.time_to_spike_ticks]_vars

\* C26: the packet callback ran inside the pass over Slow source 0 after the
\* branch had tested mean_isi_ticks; the source has spiked in this pass, and
\* the record holds the regime and the mean_isi_ticks the update wrote.
C26_Witness ==
    /\ preempted = [s |-> 0, point |-> "guard"]
    /\ tick_spikes[0] = 1
    /\ last_rate[0] # NoRate
    /\ ~spike_source_array[0].is_fast_source
    /\ spike_source_array[0].mean_isi_ticks = 0

\* C27: n_spike_sources never exceeds the number of records the source table
\* was allocated for at first load, also after a resume that re-read a block
\* the host has changed, so the reload copy and the sweep stay inside the
\* allocation.
C27_SourcesWithinAllocation ==
    /\ parameters.n_spike_sources <= table_records
    /\ \A s \in DOMAIN spike_source_array : s < table_records

=============================================================================
